---- MODULE Spec2Model ----
(***************************************************************************)
(* Model of claude-rtl-fixer: the patch transaction (patcher.js), the      *)
(* backup manager (backup.js), the marker store and the integrity codec    *)
(* (integrity.js).                                                          *)
(*                                                                          *)
(* Files are modelled by their content.  The executable is a sequence of   *)
(* one-character strings (its bytes).  The archive is modelled by the tree *)
(* it packs (the tokens of mainView.js) because the transaction only ever  *)
(* looks at that file and at the hash of the header, which lists the files *)
(* of the tree.  A file that may be missing is a sequence of length 0      *)
(* (missing) or 1 (present, holding its content).                           *)
(*                                                                          *)
(* Every call into the file system can fail, so a function that touches   *)
(* the file system is modelled by the SET of results it can return on a    *)
(* given disk: one result for each call that may throw, and the result of  *)
(* the run in which nothing throws.  A call that throws leaves its target  *)
(* as it was.  The one exception is the repack, which writes the live      *)
(* archive in place and may fail after it has started to write.            *)
(***************************************************************************)
EXTENDS Integers, Sequences, FiniteSets, TLC

VARIABLES
  disk,   \* the installation's files: asar, exe, asarBak, exeBak, marker
  ret,    \* what the last operation returned, and the disk it was called on
  hist,   \* history: what had happened before the last operation
  scratch \* the temp directory, the clock and the invocations in flight
          \* (used by the specification of concurrent invocations only)

vars == <<disk, ret, hist, scratch>>

----------------------------------------------------------------------------
(* Bounds of the model                                                      *)

\* segments an executable of the codec specification is built from
MaxSegs == 3
\* tokens of mainView.js in a fresh installation
MaxMain == 2
\* header length declared by an archive file of the header specification
MaxHeader == 2
\* milliseconds the clock of the concurrent specification can advance
MaxClock == 2

----------------------------------------------------------------------------
(* Bytes                                                                    *)

\* length of a SHA-256 hex digest: integrity.js slices 64 bytes and matches {64}
HashLen == 64

HexLower == {"0", "1", "2", "3", "4", "5", "6", "7", "8", "9",
             "a", "b", "c", "d", "e", "f"}

HexDigits == <<"0", "1", "2", "3", "4", "5", "6", "7", "8", "9",
               "a", "b", "c", "d", "e", "f">>

\* the text '"alg":"SHA256","value":"' that precedes the hash in claude.exe
Pattern == <<"\"", "a", "l", "g", "\"", ":", "\"", "S", "H", "A", "2", "5", "6", "\"",
             ",", "\"", "v", "a", "l", "u", "e", "\"", ":", "\"">>

\* n copies of the byte sequence s
Rep(s, n) == [i \in 1..(n * Len(s)) |-> s[((i - 1) % Len(s)) + 1]]

\* does needle occur in buf at (1-based) position i
MatchAt(buf, needle, i) ==
  /\ i >= 1
  /\ i + Len(needle) - 1 <= Len(buf)
  /\ \A k \in 1..Len(needle) : buf[i + k - 1] = needle[k]

\* Buffer.indexOf(needle, from): the first position >= from where needle
\* occurs, 0 when there is none (JavaScript's -1)
IndexOf(buf, needle, from) ==
  LET hits == {i \in from..(Len(buf) - Len(needle) + 1) : MatchAt(buf, needle, i)}
  IN IF hits = {} THEN 0 ELSE CHOOSE i \in hits : \A j \in hits : i <= j

\* Buffer.slice(start, end) with 1-based start and exclusive end: clipped to
\* the buffer, never an error
Slice(buf, start, end) ==
  SubSeq(buf, start, IF end - 1 > Len(buf) THEN Len(buf) ELSE end - 1)

\* /^[0-9a-f]{64}$/
IsHash(s) == Len(s) = HashLen /\ \A i \in 1..Len(s) : s[i] \in HexLower

\* the bytes of src put into buf in front of position at, nothing overwritten
OverwriteInsert(buf, src, at) ==
  SubSeq(buf, 1, at - 1) \o src \o SubSeq(buf, at, Len(buf))

\* buf with the bytes of src copied over it from position at (Buffer.copy)
Overwrite(buf, src, at) ==
  [i \in 1..Len(buf) |->
     IF i >= at /\ i < at + Len(src) THEN src[i - at + 1] ELSE buf[i]]

----------------------------------------------------------------------------
(* The archive                                                              *)

\* mainView.js as tokens: "c" a chunk of the application's code, "SM" the
\* trailing source-map comment, "PAY" the injected payload (it holds the
\* marker string "Claude RTL Fixer"), "NL" the newline put after the payload
Tokens == {"c", "SM", "PAY", "NL"}

TokenCode(t) == CASE t = "c" -> 1 [] t = "SM" -> 2 [] t = "PAY" -> 3 [] t = "NL" -> 4

\* an archive that packs a tree whose mainView.js holds `main`
Archive(main) == [torn |-> FALSE, hasMain |-> TRUE, main |-> main]

\* an archive that packs a tree without mainView.js
NoMainArchive == [torn |-> FALSE, hasMain |-> FALSE, main |-> <<>>]

\* what a repack that failed while writing leaves at the archive's path
TornArchive == [torn |-> TRUE, hasMain |-> FALSE, main |-> <<>>]

\* the header string of an archive lists the files of the tree with their
\* sizes and content hashes, so it is one-to-one with the tree; it is coded
\* here as a number (bijective base 5 over the tokens of mainView.js)
RECURSIVE MainCode(_)
MainCode(main) ==
  IF main = <<>> THEN 0 ELSE TokenCode(Head(main)) + 5 * MainCode(Tail(main))

HeaderString(a) ==
  IF a.torn THEN 0 ELSE IF ~a.hasMain THEN 1 ELSE 2 + MainCode(a.main)

\* n written with `width` lowercase hex digits
RECURSIVE HexOf(_, _)
HexOf(n, width) ==
  IF width = 0 THEN <<>>
  ELSE IF n = 0 THEN Rep(<<"0">>, width)
  ELSE HexOf(n \div 16, width - 1) \o <<HexDigits[(n % 16) + 1]>>

\* crypto.createHash("sha256").update(header).digest("hex"): 64 lowercase hex
\* characters, different for different headers
Sha256Hex(header) == HexOf(header, HashLen)

\* computeAsarHeaderHash(asarPath) when the file can be opened and read
ComputeAsarHeaderHash(a) == Sha256Hex(HeaderString(a))

----------------------------------------------------------------------------
(* The integrity codec: the hash embedded in the executable                *)

\* a byte as toString("ascii") decodes it: the highest bit is unset, so the
\* byte 0xE1 (written "E1" here) comes out as "a" (0x61); the other bytes of
\* the model are below 0x80 and come out as they are
ToAscii(b) == IF b = "E1" THEN "a" ELSE b

\* readEmbeddedHash(exePath) on an executable holding buf, when the read
\* does not throw
ReadEmbeddedHash(buf) ==
  LET idx == IndexOf(buf, Pattern, 1)
      hashStart == idx + Len(Pattern)
      bytes == Slice(buf, hashStart, hashStart + HashLen)
      hash == [i \in 1..Len(bytes) |-> ToAscii(bytes[i])]
  IN IF idx = 0
       THEN [found |-> FALSE, hash |-> <<>>, error |-> "NotFound"]
     ELSE IF ~IsHash(hash)
       THEN [found |-> FALSE, hash |-> <<>>, error |-> "Format"]
     ELSE [found |-> TRUE, hash |-> hash, error |-> "none"]

\* where the search for a second occurrence of the old hash starts, given
\* the position of the first
SecondSearchFrom(idx) == idx + HashLen

\* patchExeHash without the check for a second occurrence
PatchExeHashFirstMatch(buf, oldHash, newHash) ==
  LET idx == IndexOf(buf, oldHash, 1)
      res(ok, threw, err, b) ==
        [success |-> ok, threw |-> threw, error |-> err, buf |-> b]
  IN IF oldHash = newHash THEN {res(TRUE, FALSE, "none", buf)}
     ELSE IF idx = 0 THEN {res(FALSE, FALSE, "OldHashNotFound", buf)}
     ELSE {res(TRUE, FALSE, "none", Overwrite(buf, newHash, idx))}

\* patchExeHash(exePath, oldHash, newHash) on an executable holding buf: the
\* results it can return.  threw: readFileSync or writeFileSync threw, and
\* the caller sees an exception
PatchExeHash(buf, oldHash, newHash) ==
  LET idx == IndexOf(buf, oldHash, 1)
      secondIdx == IndexOf(buf, oldHash, SecondSearchFrom(idx))
      res(ok, threw, err, b) ==
        [success |-> ok, threw |-> threw, error |-> err, buf |-> b]
  IN IF oldHash = newHash THEN {res(TRUE, FALSE, "none", buf)}
     ELSE IF ~IsHash(oldHash) \/ ~IsHash(newHash)
       THEN {res(FALSE, FALSE, "InvalidHashFormat", buf)}
     ELSE {res(FALSE, TRUE, "io", buf)} \cup
          (IF idx = 0 THEN {res(FALSE, FALSE, "OldHashNotFound", buf)}
           ELSE IF secondIdx # 0 THEN {res(FALSE, FALSE, "AmbiguousMatch", buf)}
           ELSE {res(FALSE, TRUE, "io", buf),
                 res(TRUE, FALSE, "none", Overwrite(buf, newHash, idx))})

----------------------------------------------------------------------------
(* The backup manager and the marker store                                  *)

Exists(file) == Len(file) > 0

\* hasBackups(install)
HasBackups(d) == Exists(d.asarBak) /\ Exists(d.exeBak)

\* isPatchedOnDisk that takes a marker for one only when its body decodes
IsPatchedOnDiskDecoded(d) ==
  IF ~Exists(d.marker) THEN [patched |-> FALSE, info |-> "undefined"]
  ELSE IF d.marker[1].corrupt THEN [patched |-> FALSE, info |-> "null"]
  ELSE [patched |-> TRUE, info |-> "data"]

\* isPatchedOnDisk(install): patched iff the marker file exists; info is the
\* decoded body, or null when the body does not decode
IsPatchedOnDisk(d) ==
  IF ~Exists(d.marker) THEN [patched |-> FALSE, info |-> "undefined"]
  ELSE IF d.marker[1].corrupt THEN [patched |-> TRUE, info |-> "null"]
  ELSE [patched |-> TRUE, info |-> "data"]

\* writeMarker(install, oldHash, newHash), when the write does not throw
WriteMarker(d, oldHash, newHash) ==
  [d EXCEPT !.marker =
     <<[corrupt |-> FALSE, original |-> oldHash, patched |-> newHash]>>]

\* the catch block of createBackup: each backup path is unlinked, errors
\* ignored, so each file that is there is removed or stays
BackupCleanup(d) ==
  {[d EXCEPT !.asarBak = a, !.exeBak = e] :
     a \in {<<>>, d.asarBak}, e \in {<<>>, d.exeBak}}

\* createBackup that copies over backups that are there
CreateBackupOverwrites(d) ==
  {[success |-> TRUE, skipped |-> FALSE,
    disk |-> [d EXCEPT !.asarBak = <<d.asar>>, !.exeBak = <<d.exe>>]]}

\* createBackup(install): the results it can return
CreateBackup(d) ==
  LET res(ok, skipped, dd) == [success |-> ok, skipped |-> skipped, disk |-> dd]
      d1 == [d EXCEPT !.asarBak = <<d.asar>>]
      d2 == [d1 EXCEPT !.exeBak = <<d.exe>>]
  IN IF Exists(d.asarBak) /\ Exists(d.exeBak) THEN {res(TRUE, TRUE, d)}
     ELSE {res(FALSE, FALSE, dd) : dd \in BackupCleanup(d)}     \* 1st copy throws
          \cup {res(FALSE, FALSE, dd) : dd \in BackupCleanup(d1)}  \* 2nd copy throws
          \cup {res(TRUE, FALSE, d2)}

\* restoreBackup that leaves the marker where it is
RestoreBackupKeepsMarker(d) ==
  IF ~Exists(d.asarBak) \/ ~Exists(d.exeBak)
    THEN {[success |-> FALSE, error |-> "MissingBackup", disk |-> d]}
  ELSE {[success |-> TRUE, error |-> "none",
         disk |-> [d EXCEPT !.asar = d.asarBak[1], !.exe = d.exeBak[1],
                            !.asarBak = <<>>, !.exeBak = <<>>]]}

\* restoreBackup that copies back the archive and forgets the executable
RestoreBackupArchiveOnly(d) ==
  IF ~Exists(d.asarBak) \/ ~Exists(d.exeBak)
    THEN {[success |-> FALSE, error |-> "MissingBackup", disk |-> d]}
  ELSE {[success |-> TRUE, error |-> "none",
         disk |-> [d EXCEPT !.asar = d.asarBak[1], !.asarBak = <<>>,
                            !.exeBak = <<>>, !.marker = <<>>]]}

\* restoreBackup(install): the results it can return
RestoreBackup(d) ==
  LET res(ok, err, dd) == [success |-> ok, error |-> err, disk |-> dd]
      d1 == [d EXCEPT !.asar = d.asarBak[1]]
      d2 == [d1 EXCEPT !.exe = d.exeBak[1]]
      d3 == [d2 EXCEPT !.asarBak = <<>>]
      d4 == [d3 EXCEPT !.exeBak = <<>>]
      d5 == [d4 EXCEPT !.marker = <<>>]
  IN IF ~Exists(d.asarBak) \/ ~Exists(d.exeBak)
       THEN {res(FALSE, "MissingBackup", d)}
     ELSE {res(FALSE, "RestoreFailed", d),      \* copy of the archive throws
           res(FALSE, "RestoreFailed", d1),     \* copy of the executable throws
           res(FALSE, "RestoreFailed", d2),     \* unlink of the archive backup throws
           res(FALSE, "RestoreFailed", d3),     \* unlink of the executable backup throws
           res(TRUE, "none", d5)}
          \cup (IF Exists(d.marker)             \* unlink of the marker throws
                  THEN {res(FALSE, "RestoreFailed", d4)} ELSE {})

----------------------------------------------------------------------------
(* The payload                                                              *)

\* isPatched(content): the content holds the marker string of the payload
IsCodePatched(main) == \E i \in 1..Len(main) : main[i] = "PAY"

\* lines 188-194 of patch(): the payload goes in front of the first
\* source-map comment when there is one, at the end otherwise
Inject(main) ==
  LET hits == {i \in 1..Len(main) : main[i] = "SM"}
      at == CHOOSE i \in hits : \A j \in hits : i <= j
  IN IF hits = {} THEN main \o <<"PAY">>
     ELSE SubSeq(main, 1, at - 1) \o <<"PAY", "NL", "SM">>
            \o SubSeq(main, at + 1, Len(main))

----------------------------------------------------------------------------
(* The patch transaction                                                    *)

\* What an operation hands back: the disk it leaves and the fields of ret.
\*   outcome  "ok" (success: true), "fail" (success: false), "throw" (an
\*            exception left the function)
\*   step     the step that ended the operation
\*   restore  "none" (restoreBackup was not called), "ok", "fail" (its result)
\*   saysRestored  the error text says the original files have been restored
\*   saysRestoreFailed  the error text reports that the restore failed
\*   scratchLeft  the scratch directory of this call is still on disk
Out(d, outcome, error, step, restore, says, scratchLeft, oldHash, newHash) ==
  [disk |-> d, outcome |-> outcome, error |-> error, step |-> step,
   restore |-> restore, saysRestored |-> says, saysRestoreFailed |-> FALSE,
   scratchLeft |-> scratchLeft, oldHash |-> oldHash, newHash |-> newHash]

\* cleanup(tempDir): best effort; TRUE when the directory is still there
Cleanup == {FALSE, TRUE}

RestoreTag(rb) == IF rb.success THEN "ok" ELSE "fail"

\* step 10: write the marker, clean up, return success
PatchMark(d, oldHash, newHash) ==
  {Out(d, "throw", "io", "mark", "none", FALSE, TRUE, oldHash, newHash)}
  \cup {Out(WriteMarker(d, oldHash, newHash), "ok", "none", "done", "none", FALSE,
            left, oldHash, newHash) : left \in Cleanup}

\* steps 8 and 9 with the marker written before the executable is rewritten
PatchRehashMarkFirst(d, oldHash) ==
  LET newHash == ComputeAsarHeaderHash(d.asar)
      m == WriteMarker(d, oldHash, newHash)
  IN UNION {
       IF pr.threw
         THEN {Out(m, "throw", "io", "patchExe", "none", FALSE, TRUE, oldHash, newHash)}
       ELSE IF ~pr.success
         THEN {Out(rb.disk, "fail", pr.error, "patchExe", RestoreTag(rb), FALSE,
                   left, oldHash, newHash) : rb \in RestoreBackup(m), left \in Cleanup}
       ELSE {Out([m EXCEPT !.exe = pr.buf], "ok", "none", "done", "none", FALSE,
                 left, oldHash, newHash) : left \in Cleanup}
       : pr \in PatchExeHash(d.exe, oldHash, newHash)}

\* steps 8 and 9: hash the new header, rewrite the hash in the executable;
\* a failure that patchExeHash returns restores the backups
PatchRehash(d, oldHash) ==
  LET newHash == ComputeAsarHeaderHash(d.asar)
  IN {Out(d, "throw", "io", "rehash", "none", FALSE, TRUE, oldHash, <<>>)}
     \cup UNION {
       IF pr.threw
         THEN {Out(d, "throw", "io", "patchExe", "none", FALSE, TRUE, oldHash, newHash)}
       ELSE IF ~pr.success
         THEN {Out(rb.disk, "fail", pr.error, "patchExe", RestoreTag(rb), FALSE,
                   left, oldHash, newHash) : rb \in RestoreBackup(d), left \in Cleanup}
       ELSE PatchMark([d EXCEPT !.exe = pr.buf], oldHash, newHash)
       : pr \in PatchExeHash(d.exe, oldHash, newHash)}

\* a failure of the repack or of the size check: clean up, restore the
\* backups, say that the original files have been restored
PatchRollback(d, error, step, oldHash) ==
  {Out(rb.disk, "fail", error, step, RestoreTag(rb), TRUE, left, oldHash, <<>>) :
     rb \in RestoreBackup(d), left \in Cleanup}

\* step 7: repack the scratch tree over the live archive (createPackage may
\* throw before it writes, or after it has started to write), then check the
\* size of the new archive
PatchRepack(d, oldHash, main) ==
  LET torn == [d EXCEPT !.asar = TornArchive]
      packed == [d EXCEPT !.asar = Archive(main)]
  IN PatchRollback(d, "RepackFailed", "repack", oldHash)
     \cup PatchRollback(torn, "RepackFailed", "repack", oldHash)
     \cup PatchRollback(packed, "VerifyFailed", "verify", oldHash)
     \cup PatchRehash(packed, oldHash)

\* step 6 without the test for a payload that is already there
PatchInjectUnguarded(d, oldHash) ==
  IF ~d.asar.hasMain
    THEN {Out(d, "fail", "StructureChanged", "inject", "none", FALSE, left,
              oldHash, <<>>) : left \in Cleanup}
  ELSE {Out(d, "throw", "io", "inject", "none", FALSE, TRUE, oldHash, <<>>)}
       \cup PatchRepack(d, oldHash, Inject(d.asar.main))

\* step 6: inject the payload into mainView.js of the scratch tree
PatchInject(d, oldHash) ==
  IF ~d.asar.hasMain
    THEN {Out(d, "fail", "StructureChanged", "inject", "none", FALSE, left,
              oldHash, <<>>) : left \in Cleanup}
  ELSE {Out(d, "throw", "io", "inject", "none", FALSE, TRUE, oldHash, <<>>)}
       \cup (IF IsCodePatched(d.asar.main)
               THEN {Out(d, "fail", "AlreadyPatchedCode", "inject", "none", FALSE,
                         left, oldHash, <<>>) : left \in Cleanup}
             ELSE PatchRepack(d, oldHash, Inject(d.asar.main)))

\* step 5: extract the live archive into a scratch directory
PatchExtract(d, oldHash) ==
  {Out(d, "fail", "ExtractFailed", "extract", "none", FALSE, left, oldHash, <<>>) :
     left \in Cleanup}
  \cup (IF d.asar.torn THEN {} ELSE PatchInject(d, oldHash))

\* step 4: create the backups
PatchBackup(d, oldHash) ==
  UNION {
    IF ~b.success
      THEN {Out(b.disk, "fail", "BackupFailed", "backup", "none", FALSE, FALSE,
                oldHash, <<>>)}
    ELSE PatchExtract(b.disk, oldHash)
    : b \in CreateBackup(d)}

\* step 3 with the backups made before the hash is checked
PatchReadHashBackupFirst(d) ==
  LET hr == ReadEmbeddedHash(d.exe)
  IN UNION {
       IF ~hr.found
         THEN {Out(b.disk, "fail", hr.error, "readHash", "none", FALSE, FALSE,
                   <<>>, <<>>)}
       ELSE IF ComputeAsarHeaderHash(d.asar) # hr.hash
         THEN {Out(b.disk, "fail", "IntegrityMismatch", "verifyHash", "none", FALSE,
                   FALSE, hr.hash, <<>>)}
       ELSE PatchExtract(b.disk, hr.hash)
       : b \in {x \in CreateBackup(d) : x.success}}

\* step 3: read the embedded hash and check it against the live archive
PatchReadHash(d) ==
  LET hr == ReadEmbeddedHash(d.exe)
      fail(err, step, h) == Out(d, "fail", err, step, "none", FALSE, FALSE, h, <<>>)
      throw(step, h) == Out(d, "throw", "io", step, "none", FALSE, FALSE, h, <<>>)
  IN {throw("readHash", <<>>)}
     \cup (IF ~hr.found THEN {fail(hr.error, "readHash", <<>>)}
           ELSE {throw("verifyHash", hr.hash)}
                \cup (IF ComputeAsarHeaderHash(d.asar) # hr.hash
                        THEN {fail("IntegrityMismatch", "verifyHash", hr.hash)}
                      ELSE PatchBackup(d, hr.hash)))

\* what a call finds around the installation: the locator finds it or not,
\* the host application runs or not, each live file can be opened for
\* writing or not; the checks are made in this order and the first that fails
\* ends the call, so what comes after it is not looked at (FALSE here)
Envs ==
  {e \in [found : BOOLEAN, running : BOOLEAN, asarWritable : BOOLEAN,
           exeWritable : BOOLEAN] :
     /\ ~e.found => ~e.running
     /\ (~e.found \/ e.running) => ~e.asarWritable
     /\ ~e.asarWritable => ~e.exeWritable}

\* preflight that does not look at the marker
PreflightNoMarker(d, env, requireUnpatched) ==
  IF ~env.found THEN "NotInstalled"
  ELSE IF env.running THEN "Running"
  ELSE IF ~env.asarWritable THEN "Locked"
  ELSE IF ~env.exeWritable THEN "Locked"
  ELSE "ok"

\* preflight(requireUnpatched): "ok" or the error
Preflight(d, env, requireUnpatched) ==
  IF ~env.found THEN "NotInstalled"
  ELSE IF env.running THEN "Running"
  ELSE IF ~env.asarWritable THEN "Locked"
  ELSE IF ~env.exeWritable THEN "Locked"
  ELSE IF requireUnpatched /\ IsPatchedOnDisk(d).patched THEN "AlreadyPatched"
  ELSE "ok"

\* patch(): the results it can return
Patch(d, env) ==
  LET check == Preflight(d, env, TRUE)
  IN IF check # "ok"
       THEN {Out(d, "fail", check, "preflight", "none", FALSE, FALSE, <<>>, <<>>)}
     ELSE PatchReadHash(d)

\* unpatch() with the write probe in front of the backup check
UnpatchProbeFirst(d, env) ==
  LET fail(err, step) == Out(d, "fail", err, step, "none", FALSE, FALSE, <<>>, <<>>)
  IN IF ~env.found THEN {fail("NotInstalled", "locate")}
     ELSE IF env.running THEN {fail("Running", "running")}
     ELSE IF ~env.asarWritable \/ ~env.exeWritable THEN {fail("Locked", "probe")}
     ELSE IF ~HasBackups(d)
       THEN IF ~IsPatchedOnDisk(d).patched THEN {fail("NotPatched", "backups")}
            ELSE {fail("NoBackups", "backups")}
     ELSE {IF ~rb.success
             THEN [Out(rb.disk, "fail", rb.error, "restore", "fail", FALSE, FALSE,
                       <<>>, <<>>) EXCEPT !.saysRestoreFailed = TRUE]
           ELSE Out(rb.disk, "ok", "none", "done", "ok", FALSE, FALSE, <<>>, <<>>)
           : rb \in RestoreBackup(d)}

\* unpatch() without the running check
UnpatchWhileRunning(d, env) ==
  LET fail(err, step) == Out(d, "fail", err, step, "none", FALSE, FALSE, <<>>, <<>>)
  IN IF ~env.found THEN {fail("NotInstalled", "locate")}
     ELSE IF ~HasBackups(d)
       THEN IF ~IsPatchedOnDisk(d).patched THEN {fail("NotPatched", "backups")}
            ELSE {fail("NoBackups", "backups")}
     ELSE {IF ~rb.success
             THEN [Out(rb.disk, "fail", rb.error, "restore", "fail", FALSE, FALSE,
                       <<>>, <<>>) EXCEPT !.saysRestoreFailed = TRUE]
           ELSE Out(rb.disk, "ok", "none", "done", "ok", FALSE, FALSE, <<>>, <<>>)
           : rb \in RestoreBackup(d)}

\* unpatch(): the results it can return
Unpatch(d, env) ==
  LET fail(err, step) == Out(d, "fail", err, step, "none", FALSE, FALSE, <<>>, <<>>)
  IN IF ~env.found THEN {fail("NotInstalled", "locate")}
     ELSE IF env.running THEN {fail("Running", "running")}
     ELSE IF ~HasBackups(d)
       THEN IF ~IsPatchedOnDisk(d).patched THEN {fail("NotPatched", "backups")}
            ELSE {fail("NoBackups", "backups")}
     ELSE IF ~env.asarWritable \/ ~env.exeWritable THEN {fail("Locked", "probe")}
     ELSE {IF ~rb.success
             THEN [Out(rb.disk, "fail", rb.error, "restore", "fail", FALSE, FALSE,
                       <<>>, <<>>) EXCEPT !.saysRestoreFailed = TRUE]
           ELSE Out(rb.disk, "ok", "none", "done", "ok", FALSE, FALSE, <<>>, <<>>)
           : rb \in RestoreBackup(d)}

\* the fields of a status() result when status() was not the call
NoView == [patched |-> FALSE, info |-> "undefined", codePatched |-> FALSE,
           backupsExist |-> FALSE, running |-> FALSE]

\* status() that takes the backups for the patch state
StatusFromBackups(d, env) ==
  IF ~env.found
    THEN {[outcome |-> "fail", error |-> "NotInstalled", view |-> NoView,
           scratchLeft |-> FALSE]}
  ELSE {[outcome |-> "ok", error |-> "none",
         view |-> [patched |-> HasBackups(d), info |-> "undefined",
                   codePatched |-> FALSE,
                   backupsExist |-> HasBackups(d), running |-> env.running],
         scratchLeft |-> FALSE]}

\* status(): the results it can return.  The code check extracts the live
\* archive into a scratch directory; when the extraction or the read of
\* mainView.js throws, codePatched stays false and cleanup is not reached
Status(d, env) ==
  LET res(code, left) ==
        [outcome |-> "ok", error |-> "none",
         view |-> [patched |-> IsPatchedOnDisk(d).patched,
                   info |-> IsPatchedOnDisk(d).info, codePatched |-> code,
                   backupsExist |-> HasBackups(d), running |-> env.running],
         scratchLeft |-> left]
  IN IF ~env.found
       THEN {[outcome |-> "fail", error |-> "NotInstalled", view |-> NoView,
              scratchLeft |-> FALSE]}
     ELSE {res(FALSE, left) : left \in Cleanup}          \* extractAll throws
          \cup (IF d.asar.torn THEN {}
                ELSE IF ~d.asar.hasMain THEN {res(FALSE, left) : left \in Cleanup}
                ELSE {res(FALSE, TRUE)}                  \* readFileSync throws
                     \cup {res(IsCodePatched(d.asar.main), left) : left \in Cleanup})

\* runStatus(): the line 'Marker and code state are out of sync!' is printed
RunStatusWarning(view) == view.codePatched # view.patched

----------------------------------------------------------------------------
(* Installations and the operations as actions                              *)

\* the token sequences over S of length at most n
RECURSIVE SeqsUpTo(_, _)
SeqsUpTo(S, n) ==
  IF n = 0 THEN {<<>>}
  ELSE LET prev == SeqsUpTo(S, n - 1)
       IN prev \cup {Append(m, t) : m \in prev, t \in S}

\* mainView.js of the application as shipped: code, with or without
\* source-map comments, without the payload
InitMains == SeqsUpTo({"c", "SM"}, MaxMain)

InitArchives == {Archive(m) : m \in InitMains} \cup {NoMainArchive}

\* a digest that is the header hash of no archive of the model
ForeignHash == Rep(<<"f">>, HashLen)

\* executables of an installation whose archive has header hash h: the hash
\* once after the pattern, the hash a second time after or before it, no
\* pattern, an upper-case digest, a foreign digest, a second integrity entry,
\* a hash with a byte of its own alphabet after it
InitExes(h) ==
  {<<"M", "Z">> \o Pattern \o h \o <<"\"">>,
   <<"M", "Z">> \o Pattern \o h \o <<"\"">> \o h,
   h \o <<"M", "Z">> \o Pattern \o h \o <<"\"">>,
   <<"M", "Z">>,
   <<"M", "Z">> \o Pattern \o Rep(<<"A">>, HashLen) \o <<"\"">>,
   <<"M", "Z">> \o Pattern \o ForeignHash \o <<"\"">>,
   <<"M", "Z">> \o Pattern \o h \o <<"\"">> \o Pattern \o ForeignHash \o <<"\"">>,
   <<"M", "Z">> \o Pattern \o h \o <<"0">>}

\* the environment of a call that does not look at it
AnyEnv == [found |-> TRUE, running |-> FALSE, asarWritable |-> TRUE,
           exeWritable |-> TRUE]

\* ret after operation op, called on disk `pre` in environment env, returned r
RetOf(op, r, pre, env) ==
  [op |-> op, env |-> env, view |-> NoView, outcome |-> r.outcome, error |-> r.error, step |-> r.step,
   restore |-> r.restore, saysRestored |-> r.saysRestored,
   saysRestoreFailed |-> r.saysRestoreFailed, scratchLeft |-> r.scratchLeft,
   oldHash |-> r.oldHash, newHash |-> r.newHash, skipped |-> FALSE, pre |-> pre]

\* ret of something that is no call of patch() or unpatch()
PlainRet(op, outcome, error, pre) ==
  [op |-> op, env |-> AnyEnv, view |-> NoView, outcome |-> outcome, error |-> error, step |-> "none",
   restore |-> "none", saysRestored |-> FALSE, saysRestoreFailed |-> FALSE,
   scratchLeft |-> FALSE, oldHash |-> <<>>, newHash |-> <<>>, skipped |-> FALSE,
   pre |-> pre]

\* a patch() has succeeded and no unpatch() has succeeded since
OpenAfter ==
  IF ret.op = "patch" /\ ret.outcome = "ok" THEN TRUE
  ELSE IF ret.op = "unpatch" /\ ret.outcome = "ok" THEN FALSE
  ELSE hist.open

\* the last operation was a patch() that succeeded
PatchedNow == ret.op = "patch" /\ ret.outcome = "ok"

\* the history that goes with one more operation:
\*   afterPatch  the new operation comes right after a successful patch()
\*   afterUnpatch  the new operation comes right after a successful unpatch()
\*   asar, exe   the live files the last successful patch() was called on
\*   open        a patch was open when the new operation was called
\*   origin      the live files of the installation at the start
Remember ==
  hist' = [afterPatch |-> PatchedNow,
           afterUnpatch |-> ret.op = "unpatch" /\ ret.outcome = "ok",
           asar |-> IF PatchedNow THEN ret.pre.asar ELSE hist.asar,
           exe |-> IF PatchedNow THEN ret.pre.exe ELSE hist.exe,
           open |-> OpenAfter,
           origin |-> hist.origin]

\* no invocation in flight, nothing in the temp directory
NoScratch == [now |-> 0, tmp |-> {}, pc |-> <<>>, dir |-> <<>>]

NoHist(d) ==
  [afterPatch |-> FALSE, afterUnpatch |-> FALSE, asar |-> d.asar, exe |-> d.exe,
   open |-> FALSE, origin |-> [asar |-> d.asar, exe |-> d.exe]]

\* a fresh installation: no backups, no marker
FreshDisks ==
  UNION {{[asar |-> a, exe |-> e, asarBak |-> <<>>, exeBak |-> <<>>, marker |-> <<>>] :
            e \in InitExes(ComputeAsarHeaderHash(a))} : a \in InitArchives}

Init ==
  /\ disk \in FreshDisks
  /\ ret = PlainRet("none", "ok", "none", disk)
  /\ hist = NoHist(disk)
  /\ scratch = NoScratch

PatchAct ==
  \E env \in Envs :
    \E r \in Patch(disk, env) :
      /\ disk' = r.disk
      /\ ret' = RetOf("patch", r, disk, env)
      /\ Remember
      /\ UNCHANGED scratch

UnpatchAct ==
  \E env \in Envs :
    \E r \in Unpatch(disk, env) :
      /\ disk' = r.disk
      /\ ret' = RetOf("unpatch", r, disk, env)
      /\ Remember
      /\ UNCHANGED scratch

\* the body of the marker file is damaged from outside (isPatchedOnDisk
\* provides for a marker that does not parse)
CorruptMarker ==
  /\ Exists(disk.marker)
  /\ ~disk.marker[1].corrupt
  /\ disk' = [disk EXCEPT !.marker[1].corrupt = TRUE]
  /\ ret' = PlainRet("corruptMarker", "ok", "none", disk)
  /\ Remember
  /\ UNCHANGED scratch

Next == PatchAct \/ UnpatchAct \/ CorruptMarker

\* the transaction: patch() and unpatch() on a fresh installation
Spec == Init /\ [][Next]_vars

\* status() makes no write probe
StatusEnvs == {e \in Envs : e.found /\ ~e.running => e.asarWritable /\ e.exeWritable}

StatusAct ==
  \E env \in StatusEnvs :
    \E r \in Status(disk, env) :
      /\ disk' = disk
      /\ ret' = [PlainRet("status", r.outcome, r.error, disk)
                   EXCEPT !.env = env, !.view = r.view, !.scratchLeft = r.scratchLeft]
      /\ Remember
      /\ UNCHANGED scratch

StatusNext == PatchAct \/ UnpatchAct \/ StatusAct

\* the transaction with status() called at any time
StatusSpec == Init /\ [][StatusNext]_vars

\* isPatchedOnDisk(install) called on the installation as it is
IsPatchedOnDiskAct ==
  /\ LET r == IsPatchedOnDisk(disk)
     IN ret' = [PlainRet("isPatchedOnDisk", "ok", "none", disk)
                  EXCEPT !.view = [NoView EXCEPT !.patched = r.patched,
                                                 !.info = r.info]]
  /\ disk' = disk
  /\ Remember
  /\ UNCHANGED scratch

MarkerNext == PatchAct \/ UnpatchAct \/ CorruptMarker \/ IsPatchedOnDiskAct

\* the transaction with the marker read, and damaged, at any time
MarkerSpec == Init /\ [][MarkerNext]_vars

----------------------------------------------------------------------------
(* The backup manager called directly                                       *)

CreateBackupAct ==
  \E b \in CreateBackup(disk) :
    /\ disk' = b.disk
    /\ ret' = [PlainRet("createBackup", IF b.success THEN "ok" ELSE "fail",
                        IF b.success THEN "none" ELSE "BackupFailed", disk)
                 EXCEPT !.skipped = b.skipped]
    /\ Remember
    /\ UNCHANGED scratch

RestoreBackupAct ==
  \E rb \in RestoreBackup(disk) :
    /\ disk' = rb.disk
    /\ ret' = PlainRet("restoreBackup", IF rb.success THEN "ok" ELSE "fail",
                       rb.error, disk)
    /\ Remember
    /\ UNCHANGED scratch

BackupNext == CreateBackupAct \/ RestoreBackupAct \/ PatchAct \/ UnpatchAct

\* installations that patch() accepts or refuses at the uniqueness guard:
\* mainView.js without and with a source-map comment
BackupInit ==
  /\ disk \in {d \in FreshDisks :
                 /\ d.asar \in {Archive(<<"c">>), Archive(<<"c", "SM">>)}
                 /\ ReadEmbeddedHash(d.exe).found
                 /\ ReadEmbeddedHash(d.exe).hash = ComputeAsarHeaderHash(d.asar)}
  /\ ret = PlainRet("none", "ok", "none", disk)
  /\ hist = NoHist(disk)
  /\ scratch = NoScratch

\* createBackup and restoreBackup called at any time, between patches
BackupSpec == BackupInit /\ [][BackupNext]_vars

----------------------------------------------------------------------------
(* The integrity codec called directly                                      *)

\* digests that overlap themselves when shifted (by 1, by 2), and one that
\* is not lowercase hex
CodecHashes ==
  {Rep(<<"a">>, HashLen), Rep(<<"b">>, HashLen), Rep(<<"a", "b">>, HashLen \div 2)}

CodecArgs == CodecHashes \cup {Rep(<<"A">>, HashLen)}

CodecSegs == CodecHashes \cup {Pattern, <<"a">>, <<"b">>, <<"Z">>}

\* the byte sequences made of at most n segments
RECURSIVE Concats(_)
Concats(n) ==
  IF n = 0 THEN {<<>>}
  ELSE LET prev == Concats(n - 1)
       IN prev \cup {p \o sg : p \in prev, sg \in CodecSegs}

CodecInit ==
  /\ \E e \in Concats(MaxSegs) :
       disk = [asar |-> Archive(<<"c">>), exe |-> e, asarBak |-> <<>>,
               exeBak |-> <<>>, marker |-> <<>>]
  /\ ret = PlainRet("none", "ok", "none", disk)
  /\ hist = NoHist(disk)
  /\ scratch = NoScratch

\* one call on each executable
PatchExeHashAct ==
  /\ ret.op = "none"
  /\ \E old \in CodecArgs, new \in CodecArgs :
       \E r \in PatchExeHash(disk.exe, old, new) :
         /\ disk' = [disk EXCEPT !.exe = r.buf]
         /\ ret' = [PlainRet("patchExeHash",
                             IF r.threw THEN "throw"
                             ELSE IF r.success THEN "ok" ELSE "fail",
                             r.error, disk)
                      EXCEPT !.oldHash = old, !.newHash = new]
         /\ Remember
         /\ UNCHANGED scratch

CodecNext == PatchExeHashAct

\* patchExeHash on executables of any shape
CodecSpec == CodecInit /\ [][CodecNext]_vars

----------------------------------------------------------------------------
(* readEmbeddedHash called directly                                         *)

\* what may follow the pattern: digests, an upper-case digest, 64 bytes with
\* the high bit set, a digest with a letter past f, 63 bytes only
ReadTails ==
  {Rep(<<"a">>, HashLen), Rep(<<"a", "b">>, HashLen \div 2),
   Rep(<<"0", "9">>, HashLen \div 2), Rep(<<"A">>, HashLen),
   Rep(<<"E1">>, HashLen), Rep(<<"a">>, HashLen - 1) \o <<"g">>,
   Rep(<<"a">>, HashLen - 1)}

\* executables: with and without the pattern, with bytes in front, with a
\* second integrity entry behind
ReadExes ==
  {pre \o mid \o t \o post :
     pre \in {<<>>, <<"M", "Z">>}, mid \in {<<>>, Pattern}, t \in ReadTails,
     post \in {<<>>, <<"\"">>, <<"\"">> \o Pattern \o Rep(<<"b">>, HashLen),
               <<"1", "2">>}}

ReadInit ==
  /\ \E e \in ReadExes :
       disk = [asar |-> Archive(<<"c">>), exe |-> e, asarBak |-> <<>>,
               exeBak |-> <<>>, marker |-> <<>>]
  /\ ret = PlainRet("none", "ok", "none", disk)
  /\ hist = NoHist(disk)
  /\ scratch = NoScratch

\* one call on each executable: it returns a result, or readFileSync throws
ReadEmbeddedHashAct ==
  /\ ret.op = "none"
  /\ \/ LET hr == ReadEmbeddedHash(disk.exe)
        IN ret' = [PlainRet("readEmbeddedHash", IF hr.found THEN "ok" ELSE "fail",
                            hr.error, disk) EXCEPT !.oldHash = hr.hash]
     \/ ret' = PlainRet("readEmbeddedHash", "throw", "io", disk)
  /\ disk' = disk
  /\ Remember
  /\ UNCHANGED scratch

ReadNext == ReadEmbeddedHashAct

\* readEmbeddedHash on executables of any shape
ReadSpec == ReadInit /\ [][ReadNext]_vars

----------------------------------------------------------------------------
(* The header hash on the bytes of an archive file                          *)

\* fs.readSync(fd, buffer, 0, length, position) into Buffer.alloc(length):
\* the buffer starts zero-filled and gets the bytes the file has from
\* `position` (0-based) on; the number of bytes read is not looked at
ReadSync(file, length, position) ==
  [i \in 1..length |-> IF position + i <= Len(file) THEN file[position + i] ELSE 0]

\* buf.readUInt32LE(offset), offset 0-based
ReadUInt32LE(buf, offset) ==
  buf[offset + 1] + 256 * buf[offset + 2] + 65536 * buf[offset + 3]
    + 16777216 * buf[offset + 4]

\* headerStringLength: the uint32 at offset 12 of the 16 bytes read at 0
HeaderStringLength(file) == ReadUInt32LE(ReadSync(file, 16, 0), 12)

\* headerString read from offset 0 instead of 16
HeaderStringFromStart(file) == ReadSync(file, HeaderStringLength(file), 0)

\* headerString: headerStringLength bytes read at offset 16
HeaderStringBytes(file) == ReadSync(file, HeaderStringLength(file), 16)

\* a byte sequence as a number, one-to-one (bijective base 257)
RECURSIVE ByteCode(_)
ByteCode(bytes) ==
  IF bytes = <<>> THEN 0 ELSE 1 + Head(bytes) + 257 * ByteCode(Tail(bytes))

\* createHash("sha256").update(bytes).digest("hex"), different for different
\* byte sequences
Sha256HexOfBytes(bytes) == HexOf(ByteCode(bytes), HashLen)

\* computeAsarHeaderHash(asarPath) on a file holding these bytes, when no
\* call throws
ComputeAsarHeaderHashOfFile(file) == Sha256HexOfBytes(HeaderStringBytes(file))

\* the byte sequences over S of length at most n
RECURSIVE BytesUpTo(_, _)
BytesUpTo(S, n) ==
  IF n = 0 THEN {<<>>}
  ELSE LET prev == BytesUpTo(S, n - 1)
       IN prev \cup {Append(m, b) : m \in prev, b \in S}

\* the three size fields in front of the header length (offsets 0-11)
HeaderPrefixes == {Rep(<<0>>, 12), <<4, 0, 0, 0, 7, 1, 0, 0, 2, 0, 0, 9>>}

\* archive files: a prefix, a declared header length, and bytes after offset
\* 16 that are fewer than, as many as, or more than declared; and files cut
\* inside the first 16 bytes
HeaderFiles ==
  {p \o <<n, 0, 0, 0>> \o body :
     p \in HeaderPrefixes, n \in 0..MaxHeader, body \in BytesUpTo({1, 2}, MaxHeader + 1)}
  \cup {<<>>, <<4, 0, 0, 0, 7, 1, 0, 0, 2, 0, 0, 9, 1, 0>>}

HeaderInit ==
  /\ \E f \in HeaderFiles :
       disk = [asar |-> f, exe |-> <<>>, asarBak |-> <<>>, exeBak |-> <<>>,
               marker |-> <<>>]
  /\ ret = PlainRet("none", "ok", "none", disk)
  /\ hist = NoHist(disk)
  /\ scratch = NoScratch

\* one call on each file: it returns the hash, or openSync/readSync throws
ComputeAsarHeaderHashAct ==
  /\ ret.op = "none"
  /\ \/ ret' = [PlainRet("computeAsarHeaderHash", "ok", "none", disk)
                  EXCEPT !.newHash = ComputeAsarHeaderHashOfFile(disk.asar)]
     \/ ret' = PlainRet("computeAsarHeaderHash", "throw", "io", disk)
  /\ disk' = disk
  /\ Remember
  /\ UNCHANGED scratch

HeaderNext == ComputeAsarHeaderHashAct

\* computeAsarHeaderHash on archive files of any shape
HeaderSpec == HeaderInit /\ [][HeaderNext]_vars

----------------------------------------------------------------------------
(* Concurrent invocations and their scratch directories                     *)

\* one patch() and two status() that can be in flight at the same time, as
\* separate runs of the command-line tool
StatusProcs == {"status1", "status2"}

Procs == {"patch"} \cup StatusProcs

\* path.join(os.tmpdir(), `claude-rtl-fix-${Date.now()}`)
PatchScratchName(now) == [prefix |-> "claude-rtl-fix-", stamp |-> now]

\* a status() that names its scratch directory as patch() does
StatusScratchNameAsPatch(now) == [prefix |-> "claude-rtl-fix-", stamp |-> now]

\* path.join(os.tmpdir(), `claude-rtl-check-${Date.now()}`)
StatusScratchName(now) == [prefix |-> "claude-rtl-check-", stamp |-> now]

\* the tempDir of an invocation that has not computed it
NoDir == [prefix |-> "", stamp |-> 0]

ScratchInit ==
  /\ disk \in {d \in FreshDisks :
                 /\ d.asar \in {Archive(<<"c">>), Archive(<<"c", "SM">>)}
                 /\ Len(d.exe) = 2 + Len(Pattern) + HashLen + 1
                 /\ ReadEmbeddedHash(d.exe).found
                 /\ ReadEmbeddedHash(d.exe).hash = ComputeAsarHeaderHash(d.asar)}
  /\ ret = PlainRet("none", "ok", "none", disk)
  /\ hist = NoHist(disk)
  /\ scratch = [now |-> 0, tmp |-> {}, pc |-> [p \in Procs |-> "idle"],
                dir |-> [p \in Procs |-> NoDir]]

\* the invocation p moves to pc `to`
Goto(p, to) == [scratch EXCEPT !.pc[p] = to]

\* Date.now() advances
ClockTick ==
  /\ scratch.now < MaxClock
  /\ scratch' = [scratch EXCEPT !.now = @ + 1]
  /\ UNCHANGED <<disk, ret, hist>>

\* patch() computes tempDir
PatchStart ==
  /\ scratch.pc["patch"] = "idle"
  /\ scratch' = [scratch EXCEPT !.pc["patch"] = "named",
                                 !.dir["patch"] = PatchScratchName(scratch.now)]
  /\ UNCHANGED <<disk, ret, hist>>

\* patch() extracts the archive into tempDir; when extractAll throws, the
\* catch block goes to cleanup
PatchExtractStep ==
  /\ scratch.pc["patch"] = "named"
  /\ \E to \in {"extracted", "cleaning"} :
       scratch' = [scratch EXCEPT !.pc["patch"] = to,
                                  !.tmp = @ \cup {scratch.dir["patch"]}]
  /\ UNCHANGED <<disk, ret, hist>>

\* patch() reads mainView.js in tempDir and writes the payload into it, or
\* returns through cleanup (file missing, payload found)
PatchInjectStep ==
  /\ scratch.pc["patch"] = "extracted"
  /\ \E to \in {"injected", "cleaning"} : scratch' = Goto("patch", to)
  /\ UNCHANGED <<disk, ret, hist>>

\* patch() repacks tempDir over the live archive; the steps that follow do
\* not use tempDir, and every return from here goes through cleanup
PatchRepackStep ==
  /\ scratch.pc["patch"] = "injected"
  /\ scratch' = Goto("patch", "packed")
  /\ UNCHANGED <<disk, ret, hist>>

\* cleanup(tempDir) of patch(), then patch() returns; the removal is best
\* effort
PatchCleanupStep ==
  /\ scratch.pc["patch"] \in {"cleaning", "packed"}
  /\ \E gone \in BOOLEAN :
       scratch' = [scratch EXCEPT
                     !.pc["patch"] = "idle",
                     !.dir["patch"] = NoDir,
                     !.tmp = IF gone THEN @ \ {scratch.dir["patch"]} ELSE @]
  /\ UNCHANGED <<disk, ret, hist>>

\* status() computes tempDir
StatusStart(p) ==
  /\ scratch.pc[p] = "idle"
  /\ scratch' = [scratch EXCEPT !.pc[p] = "named",
                                 !.dir[p] = StatusScratchName(scratch.now)]
  /\ UNCHANGED <<disk, ret, hist>>

\* status() extracts the archive into tempDir; when extractAll throws, the
\* catch block is entered and status() returns without cleanup
StatusExtractStep(p) ==
  /\ scratch.pc[p] = "named"
  /\ \/ scratch' = [scratch EXCEPT !.pc[p] = "extracted",
                                    !.tmp = @ \cup {scratch.dir[p]}]
     \/ scratch' = [scratch EXCEPT !.pc[p] = "idle", !.dir[p] = NoDir,
                                    !.tmp = @ \cup {scratch.dir[p]}]
  /\ UNCHANGED <<disk, ret, hist>>

\* status() reads mainView.js in tempDir; when the read throws, status()
\* returns without cleanup
StatusReadStep(p) ==
  /\ scratch.pc[p] = "extracted"
  /\ \/ scratch' = Goto(p, "cleaning")
     \/ scratch' = [scratch EXCEPT !.pc[p] = "idle", !.dir[p] = NoDir]
  /\ UNCHANGED <<disk, ret, hist>>

\* cleanup(tempDir) of status(), then status() returns
StatusCleanupStep(p) ==
  /\ scratch.pc[p] = "cleaning"
  /\ \E gone \in BOOLEAN :
       scratch' = [scratch EXCEPT
                     !.pc[p] = "idle",
                     !.dir[p] = NoDir,
                     !.tmp = IF gone THEN @ \ {scratch.dir[p]} ELSE @]
  /\ UNCHANGED <<disk, ret, hist>>

ScratchNext ==
  \/ ClockTick
  \/ PatchStart
  \/ PatchExtractStep
  \/ PatchInjectStep
  \/ PatchRepackStep
  \/ PatchCleanupStep
  \/ \E p \in StatusProcs : StatusStart(p)
  \/ \E p \in StatusProcs : StatusExtractStep(p)
  \/ \E p \in StatusProcs : StatusReadStep(p)
  \/ \E p \in StatusProcs : StatusCleanupStep(p)

\* a patch() and status() calls in flight at the same time, interleaved at
\* the calls that touch the temp directory
ScratchSpec == ScratchInit /\ [][ScratchNext]_vars

----------------------------------------------------------------------------
(* The claims                                                               *)

\* the hash embedded in the executable is the header hash of the archive
Coherent(d) ==
  LET hr == ReadEmbeddedHash(d.exe)
  IN hr.found /\ hr.hash = ComputeAsarHeaderHash(d.asar)

\* the positions at which needle occurs in buf, overlapping ones included
Occurrences(buf, needle) ==
  {i \in 1..(Len(buf) - Len(needle) + 1) : MatchAt(buf, needle, i)}

\* C1: a successful patch() followed by a successful unpatch() leaves the
\* live archive and the live executable as they were before the patch, and
\* leaves no marker and no .bak file.
C1_RoundTrip ==
  (ret.op = "unpatch" /\ ret.outcome = "ok" /\ hist.afterPatch) =>
    /\ disk.asar = hist.asar
    /\ disk.exe = hist.exe
    /\ ~Exists(disk.marker)
    /\ ~Exists(disk.asarBak)
    /\ ~Exists(disk.exeBak)

\* a successful unpatch() right after a successful patch(), which had
\* changed both live files
C1_Witness ==
  /\ ret.op = "unpatch" /\ ret.outcome = "ok" /\ hist.afterPatch
  /\ ret.pre.asar # disk.asar
  /\ ret.pre.exe # disk.exe

\* C2: when patch() returns success, the header hash of the live archive is
\* the hash readEmbeddedHash finds in the live executable, it is the newHash
\* of the result, and it differs from the hash read before the patch (the
\* oldHash of the result, which both files agreed on).
C2_HashCoherence ==
  (ret.op = "patch" /\ ret.outcome = "ok") =>
    /\ Coherent(disk)
    /\ ret.newHash = ComputeAsarHeaderHash(disk.asar)
    /\ ret.oldHash = ComputeAsarHeaderHash(ret.pre.asar)
    /\ ret.oldHash = ReadEmbeddedHash(ret.pre.exe).hash
    /\ ret.newHash # ret.oldHash

\* a patch() that succeeded on an executable that holds a second integrity
\* entry after the first
C2_Witness ==
  /\ ret.op = "patch" /\ ret.outcome = "ok"
  /\ Cardinality(Occurrences(disk.exe, Pattern)) > 1

\* C3 (as claimed): a patch() or unpatch() that starts with the hashes of the
\* archive and the executable equal ends with them equal, whatever fails.
C3_HashesMatchAtReturn ==
  (ret.op \in {"patch", "unpatch"} /\ Coherent(ret.pre)) => Coherent(disk)

\* C4 (as claimed): in patch(), a failure of the repack, of the size check or
\* of the rewrite of the hash in the executable runs restoreBackup before it
\* is returned, and the live files are then as they were before the backup.
C4_AtomicFailure ==
  (ret.op = "patch" /\ ret.step \in {"repack", "verify", "patchExe"}
     /\ ret.outcome # "ok") =>
    /\ ret.restore # "none"
    /\ disk.asar = ret.pre.asar
    /\ disk.exe = ret.pre.exe

\* C5 (as claimed): every failure of patch() past the backup step (extract,
\* missing target, already injected, repack, size check, new hash, hash
\* rewrite, marker write) triggers a restore from the backups: a patch() that
\* got past the backup step ends in Done or after a completed rollback.
C5_DoneOrRolledBack ==
  (ret.op = "patch" /\ ret.outcome # "ok"
     /\ ret.step \notin {"preflight", "readHash", "verifyHash", "backup"}) =>
    ret.restore = "ok"

\* C6 (as claimed): when the restore that follows a failure in patch() fails
\* too, the result reports the restore failure, and does not say that the
\* original files have been restored.
C6_RestoreFailureReported ==
  (ret.op = "patch" /\ ret.restore = "fail") =>
    (ret.saysRestoreFailed /\ ~ret.saysRestored)

\* C7: a patch() that ends before the backup step (not found, running,
\* locked, already patched, hash not found or invalid, integrity mismatch)
\* fails and leaves archive, executable, marker and both .bak as they were.
C7_NoEffectBeforeBackup ==
  (ret.op = "patch" /\ ret.step \in {"preflight", "readHash", "verifyHash"}) =>
    (ret.outcome # "ok" /\ disk = ret.pre)

\* the hash in the executable does not match the archive, and one backup
\* file lies around from before
C7_Witness ==
  /\ ret.op = "patch" /\ ret.error = "IntegrityMismatch"
  /\ Exists(disk.exeBak)

\* C8 (as claimed): patch() on an installation that is found and whose marker
\* exists returns the already-patched error and touches no file.
C8_MarkedGivesAlreadyPatched ==
  (ret.op = "patch" /\ ret.env.found /\ Exists(ret.pre.marker)) =>
    (ret.outcome = "fail" /\ ret.error = "AlreadyPatched" /\ disk = ret.pre)

\* C8 (amended): patch() on an installation whose marker exists, decodable or
\* not, fails and touches no file; the error is the already-patched error
\* when the installation is found, the host application is not running and
\* both files are writable, and the error of the first of these checks that
\* fails otherwise.  No patch() succeeds while a patch is open (after a
\* successful patch() and before the next successful unpatch()).
C8_DoublePatchGuard ==
  /\ (ret.op = "patch" /\ Exists(ret.pre.marker)) =>
       /\ ret.outcome = "fail"
       /\ disk = ret.pre
       /\ ret.error = (IF ~ret.env.found THEN "NotInstalled"
                       ELSE IF ret.env.running THEN "Running"
                       ELSE IF ~ret.env.asarWritable \/ ~ret.env.exeWritable
                         THEN "Locked"
                       ELSE "AlreadyPatched")
  /\ (ret.op = "patch" /\ ret.outcome = "ok") => ~hist.open

\* a second patch() refused on a marker whose body does not decode
C8_Witness ==
  /\ ret.op = "patch" /\ ret.error = "AlreadyPatched"
  /\ ret.pre.marker[1].corrupt
  /\ hist.open

\* C9 (as claimed): when the old hash occurs at more than one position of the
\* executable, overlapping positions included, patchExeHash(exe, old, new)
\* with old # new does not succeed and leaves the bytes as they were.
C9_UniquenessGuard ==
  (ret.op = "patchExeHash" /\ ret.oldHash # ret.newHash
     /\ Cardinality(Occurrences(ret.pre.exe, ret.oldHash)) > 1) =>
    (ret.outcome # "ok" /\ disk.exe = ret.pre.exe)

\* C10: a createBackup called while both .bak files are there (after a first
\* successful createBackup) returns a skipped success and leaves both .bak
\* files as they were, whatever the live files hold.
C10_IdempotentBackup ==
  (ret.op = "createBackup" /\ HasBackups(ret.pre)) =>
    /\ ret.outcome = "ok"
    /\ ret.skipped
    /\ disk.asarBak = ret.pre.asarBak
    /\ disk.exeBak = ret.pre.exeBak

\* a skipped createBackup at a time when both live files differ from their
\* backups
C10_Witness ==
  /\ ret.op = "createBackup" /\ ret.skipped
  /\ disk.asarBak # <<disk.asar>>
  /\ disk.exeBak # <<disk.exe>>

\* C11 (as claimed): at the return of every createBackup, restoreBackup,
\* patch() and unpatch(), a copy or a delete that fails partway included,
\* the archive .bak and the executable .bak both exist or both do not.
C11_BackupPair ==
  (ret.op \in {"createBackup", "restoreBackup", "patch", "unpatch"}) =>
    (Exists(disk.asarBak) <=> Exists(disk.exeBak))

\* C12 (as claimed): once both .bak files are there, no patch() (successful,
\* failed or rolled back) and no failed unpatch() removes one of them; only
\* an unpatch() that returns success does.
C12_BakDeletedOnlyByUnpatch ==
  (ret.op \in {"patch", "unpatch"} /\ HasBackups(ret.pre)
     /\ ~(ret.op = "unpatch" /\ ret.outcome = "ok")) =>
    (disk.asarBak = ret.pre.asarBak /\ disk.exeBak = ret.pre.exeBak)

\* C13 (as claimed): patch() and unpatch() end by returning an outcome value;
\* no failure inside the transaction leaves them as a thrown exception.
C13_NoException ==
  (ret.op \in {"patch", "unpatch"}) => ret.outcome # "throw"

\* C14: when the host application is found running at the running check,
\* patch() and unpatch() return the running error and leave the archive, the
\* executable, the marker and both .bak as they were; so every call that
\* changed a file had found the host not running.
C14_RunningGuard ==
  /\ (ret.op \in {"patch", "unpatch"} /\ ret.env.found /\ ret.env.running) =>
       (ret.outcome = "fail" /\ ret.error = "Running" /\ disk = ret.pre)
  /\ (ret.op \in {"patch", "unpatch"} /\ disk # ret.pre) =>
       (ret.env.found /\ ~ret.env.running)

\* unpatch() refused because the host runs, on a patched installation that
\* it would otherwise have restored
C14_Witness ==
  /\ ret.op = "unpatch" /\ ret.env.running /\ ret.error = "Running"
  /\ HasBackups(disk) /\ Exists(disk.marker)

\* C15: status() leaves the archive, the executable, the marker and both
\* .bak as they were; when it finds the installation, its patched field says
\* whether the marker file exists and its backupsExist field says whether
\* both .bak files exist.
C15_StatusReadOnly ==
  (ret.op = "status") =>
    /\ disk = ret.pre
    /\ ret.outcome # "throw"
    /\ ret.env.found =>
         /\ ret.outcome = "ok"
         /\ ret.view.patched = Exists(disk.marker)
         /\ ret.view.backupsExist = (Exists(disk.asarBak) /\ Exists(disk.exeBak))

\* status() on an installation that holds the marker and one .bak only
C15_Witness ==
  /\ ret.op = "status" /\ ret.outcome = "ok"
  /\ ret.view.patched /\ ~ret.view.backupsExist
  /\ Exists(disk.exeBak)

\* the little-endian uint32 at offset 12 of a file of at least 16 bytes
DeclaredLength(f) == f[13] + 256 * f[14] + 65536 * f[15] + 16777216 * f[16]

\* the bytes of f at offsets 16 .. 16+n-1
HeaderRegion(f, n) == SubSeq(f, 17, 16 + n)

\* f holds its 16-byte prefix and all the header bytes it declares
HoldsHeader(f) == Len(f) >= 16 /\ Len(f) >= 16 + DeclaredLength(f)

\* C16: for an archive file that holds the header it declares,
\* computeAsarHeaderHash is the SHA-256 hex digest of exactly the L bytes at
\* offset 16, L the little-endian uint32 at offset 12; any archive file with
\* the same L and the same L bytes has the same hash, whatever its bytes at
\* offsets 0-11 and after offset 16+L.
C16_HashOfHeaderRegion ==
  (ret.op = "computeAsarHeaderHash" /\ ret.outcome = "ok" /\ HoldsHeader(disk.asar)) =>
    LET f == disk.asar
        L == DeclaredLength(f)
    IN /\ ret.newHash = Sha256HexOfBytes(HeaderRegion(f, L))
       /\ \A g \in HeaderFiles :
            (HoldsHeader(g) /\ DeclaredLength(g) = L
               /\ HeaderRegion(g, L) = HeaderRegion(f, L)) =>
              ComputeAsarHeaderHashOfFile(g) = ret.newHash

\* the hash of a file with a non-zero prefix, a two-byte header and a byte
\* after the header
C16_Witness ==
  /\ ret.op = "computeAsarHeaderHash" /\ ret.outcome = "ok"
  /\ HoldsHeader(disk.asar) /\ DeclaredLength(disk.asar) = 2
  /\ Len(disk.asar) > 18 /\ disk.asar[1] # 0

\* the bytes of buf that follow the first occurrence of the marker text, 64
\* of them or as many as there are
AfterPattern(buf) ==
  LET hits == Occurrences(buf, Pattern)
      first == CHOOSE i \in hits : \A j \in hits : i <= j
      start == first + Len(Pattern)
  IN SubSeq(buf, start, IF start + 63 > Len(buf) THEN Len(buf) ELSE start + 63)

\* C17 (as claimed): readEmbeddedHash returns a not-found failure when the
\* marker text is absent; otherwise it returns found=true, with the 64 bytes
\* that follow the first occurrence as the hash, exactly when 64 bytes follow
\* and all of them are in [0-9a-f], and a format failure when not.
C17_ReadEmbeddedHash ==
  (ret.op = "readEmbeddedHash" /\ ret.outcome # "throw") =>
    IF Occurrences(disk.exe, Pattern) = {}
      THEN ret.outcome = "fail" /\ ret.error = "NotFound"
    ELSE LET follow == AfterPattern(disk.exe)
             isHex == Len(follow) = 64 /\ \A i \in 1..Len(follow) : follow[i] \in HexLower
         IN /\ (ret.outcome = "ok") <=> isHex
            /\ ret.outcome = "ok" => ret.oldHash = follow
            /\ ret.outcome = "fail" => ret.error = "Format"

\* C18: a patch() that has written the marker has succeeded, and then the
\* live archive holds the payload, the hash embedded in the executable is
\* the header hash of the archive, both .bak are there and the marker
\* records the two hashes; a patch() that fails leaves no marker.
C18_MarkerLast ==
  (ret.op = "patch") =>
    /\ (disk.marker # ret.pre.marker) =>
         /\ ret.outcome = "ok"
         /\ disk.asar.hasMain /\ IsCodePatched(disk.asar.main)
         /\ Coherent(disk)
         /\ HasBackups(disk)
         /\ disk.marker = <<[corrupt |-> FALSE, original |-> ret.oldHash,
                             patched |-> ret.newHash]>>
    /\ (ret.outcome = "ok") => (Exists(disk.marker) /\ ~Exists(ret.pre.marker))
    /\ (ret.outcome # "ok") => disk.marker = ret.pre.marker

\* a patch() that wrote the marker after it had put the payload in front of
\* a source-map comment
C18_Witness ==
  /\ ret.op = "patch" /\ ret.outcome = "ok" /\ Exists(disk.marker)
  /\ \E i \in 1..(Len(disk.asar.main) - 2) :
       disk.asar.main[i] = "PAY" /\ disk.asar.main[i + 2] = "SM"

\* C19: unpatch() checks in the order locate, running, backup pair, write
\* probe, restore, and returns the error of the first check that fails; when
\* one of the two .bak is missing it changes no file and says 'not patched'
\* if there is no marker and 'no backup files found' if there is one.
C19_UnpatchOrder ==
  (ret.op = "unpatch") =>
    LET e == ret.env
        p == ret.pre
    IN IF ~e.found THEN ret.error = "NotInstalled" /\ disk = p
       ELSE IF e.running THEN ret.error = "Running" /\ disk = p
       ELSE IF ~(Exists(p.asarBak) /\ Exists(p.exeBak))
         THEN /\ ret.outcome = "fail" /\ disk = p
              /\ ret.error = (IF Exists(p.marker) THEN "NoBackups" ELSE "NotPatched")
       ELSE IF ~e.asarWritable \/ ~e.exeWritable THEN ret.error = "Locked" /\ disk = p
       ELSE ret.restore # "none" /\ ret.error \in {"none", "RestoreFailed"}

\* unpatch() on an installation with the marker and one .bak, whose archive
\* cannot be opened for writing: the missing backup is reported
C19_Witness ==
  /\ ret.op = "unpatch" /\ ret.error = "NoBackups"
  /\ ~ret.env.asarWritable
  /\ Exists(disk.exeBak) /\ ~Exists(disk.asarBak)

\* C20: restoreBackup fails with the missing-backup error and changes no
\* file when one .bak is absent.  Otherwise, when it returns success the live
\* archive and executable hold what their .bak held and both .bak and the
\* marker are gone; when it fails, each live file is as it was or holds what
\* its .bak held.
C20_RestoreBackup ==
  (ret.op = "restoreBackup") =>
    LET p == ret.pre
    IN IF ~Exists(p.asarBak) \/ ~Exists(p.exeBak)
         THEN ret.outcome = "fail" /\ ret.error = "MissingBackup" /\ disk = p
       ELSE /\ (ret.outcome = "ok") =>
                 /\ disk.asar = p.asarBak[1] /\ disk.exe = p.exeBak[1]
                 /\ ~Exists(disk.asarBak) /\ ~Exists(disk.exeBak)
                 /\ ~Exists(disk.marker)
            /\ (ret.outcome # "ok") =>
                 /\ ret.error = "RestoreFailed"
                 /\ disk.asar \in {p.asar, p.asarBak[1]}
                 /\ disk.exe \in {p.exe, p.exeBak[1]}

\* a restoreBackup on a patched installation that failed after it had
\* copied the archive back and before it copied the executable
C20_Witness ==
  /\ ret.op = "restoreBackup" /\ ret.outcome = "fail"
  /\ Exists(ret.pre.marker)
  /\ disk.asar = ret.pre.asarBak[1] /\ disk.asar # ret.pre.asar
  /\ disk.exe = ret.pre.exe /\ disk.exe # ret.pre.exeBak[1]

\* C21: isPatchedOnDisk reports patched exactly when the marker file exists:
\* no marker gives patched=false, also when both .bak exist; a marker whose
\* body does not decode gives patched=true with info null.  A patch() called
\* on an installation with such a marker fails and changes no file, with the
\* already-patched error when the checks before the marker check pass.
C21_MarkerIsExistence ==
  /\ (ret.op = "isPatchedOnDisk") =>
       /\ disk = ret.pre
       /\ ret.view.patched = Exists(disk.marker)
       /\ ~Exists(disk.marker) => ret.view.info = "undefined"
       /\ (Exists(disk.marker) /\ disk.marker[1].corrupt) => ret.view.info = "null"
       /\ (Exists(disk.marker) /\ ~disk.marker[1].corrupt) => ret.view.info = "data"
  /\ (ret.op = "patch" /\ Exists(ret.pre.marker) /\ ret.pre.marker[1].corrupt) =>
       /\ ret.outcome = "fail" /\ disk = ret.pre
       /\ (ret.env.found /\ ~ret.env.running /\ ret.env.asarWritable
             /\ ret.env.exeWritable) => ret.error = "AlreadyPatched"

\* isPatchedOnDisk on a marker whose body does not decode, after the patch()
\* that followed the damage was refused
C21_Witness ==
  /\ ret.op = "isPatchedOnDisk" /\ ret.view.patched /\ ret.view.info = "null"
  /\ hist.open

\* mainView.js packed in the live archive holds the payload's marker string
CodeLevelPatched(d) == ~d.asar.torn /\ d.asar.hasMain /\ IsCodePatched(d.asar.main)

\* C22 (as claimed): status() gives the desync warning exactly when the code
\* state (payload in the live archive's mainView.js) differs from the marker
\* state; right after a successful patch() it reports patched and codePatched
\* both true, right after a successful unpatch() both false; an extraction
\* that fails produces no warning by itself.
C22_DesyncWarning ==
  (ret.op = "status" /\ ret.outcome = "ok") =>
    /\ RunStatusWarning(ret.view) <=> (CodeLevelPatched(disk) # Exists(disk.marker))
    /\ hist.afterPatch => (ret.view.patched /\ ret.view.codePatched)
    /\ (hist.afterUnpatch) => (~ret.view.patched /\ ~ret.view.codePatched)

\* C23 (as claimed): computeAsarHeaderHash on a file shorter than its 16-byte
\* prefix, or shorter than 16 plus the header length it declares, fails with
\* an error; a hash it returns is computed over bytes read from the file.
C23_ShortFileFails ==
  (ret.op = "computeAsarHeaderHash") =>
    /\ ~HoldsHeader(disk.asar) => ret.outcome # "ok"
    /\ (ret.outcome = "ok") =>
         ret.newHash = Sha256HexOfBytes(HeaderRegion(disk.asar, DeclaredLength(disk.asar)))

\* C24: a patchExeHash(exe, old, new) with old # new that succeeds, as it
\* does on a unique match, leaves the executable at its length, with the 64
\* bytes of new at the position of the (first) match and every other byte as
\* it was; with old = new it returns success, cannot fail on the file, and
\* leaves the executable as it was.
C24_InPlaceOverwrite ==
  (ret.op = "patchExeHash") =>
    LET old == ret.oldHash
        new == ret.newHash
        before == ret.pre.exe
        occ == Occurrences(before, old)
        idx == CHOOSE i \in occ : \A j \in occ : i <= j
    IN /\ (old = new) => (ret.outcome = "ok" /\ disk.exe = before)
       /\ (old # new /\ ret.outcome = "ok") =>
            /\ occ # {}
            /\ Len(disk.exe) = Len(before)
            /\ \A i \in 1..Len(before) :
                 disk.exe[i] = (IF i >= idx /\ i < idx + HashLen
                                  THEN new[i - idx + 1] ELSE before[i])
       /\ (old # new /\ IsHash(old) /\ IsHash(new) /\ Cardinality(occ) = 1) =>
            ret.outcome \in {"ok", "throw"}
       /\ (ret.outcome # "ok") => disk.exe = before

\* a rewrite of a hash that occurs once, with bytes before and after it
C24_Witness ==
  /\ ret.op = "patchExeHash" /\ ret.outcome = "ok" /\ ret.oldHash # ret.newHash
  /\ Cardinality(Occurrences(ret.pre.exe, ret.oldHash)) = 1
  /\ ~MatchAt(ret.pre.exe, ret.oldHash, 1)
  /\ ~MatchAt(ret.pre.exe, ret.oldHash, Len(ret.pre.exe) - HashLen + 1)
  /\ disk.exe # ret.pre.exe

\* C25 (as claimed): a patch() that fails at the extract step or at the
\* inject step has removed the scratch directory and leaves the live archive
\* and the live executable as they were at the start of the call; no return
\* of patch() leaves a scratch directory behind.
C25_ScratchRemoved ==
  (ret.op = "patch") =>
    /\ (ret.step \in {"extract", "inject"} /\ ret.outcome # "ok") =>
         /\ ~ret.scratchLeft
         /\ disk.asar = ret.pre.asar
         /\ disk.exe = ret.pre.exe
    /\ (ret.outcome # "throw") => ~ret.scratchLeft

\* how many times mainView.js packed in archive a holds the payload
PayloadCount(a) ==
  IF a.torn \/ ~a.hasMain THEN 0
  ELSE Cardinality({i \in 1..Len(a.main) : a.main[i] = "PAY"})

\* C26: a patch() that has extracted the live archive and read a mainView.js
\* that holds the payload's marker string returns the already-patched-code
\* error, marker file or not; no patch() called on such an archive succeeds
\* or changes the live archive or the live executable; and at all times
\* mainView.js in the live archive holds the payload at most once.
C26_NoDoubleInjection ==
  /\ PayloadCount(disk.asar) <= 1
  /\ (ret.op = "patch" /\ CodeLevelPatched(ret.pre)) =>
       /\ ret.outcome # "ok"
       /\ disk.asar = ret.pre.asar
       /\ disk.exe = ret.pre.exe
       /\ disk.marker = ret.pre.marker
       /\ (ret.outcome = "fail"
             /\ ret.step \notin {"preflight", "readHash", "verifyHash", "backup",
                                 "extract"}) =>
            (ret.step = "inject" /\ ret.error = "AlreadyPatchedCode")
  /\ (ret.op = "patch" /\ ret.error = "AlreadyPatchedCode") =>
       CodeLevelPatched(ret.pre)

\* a patch() refused by the guard on an archive that holds the payload while
\* no marker file exists
C26_Witness ==
  /\ ret.op = "patch" /\ ret.error = "AlreadyPatchedCode"
  /\ ~Exists(ret.pre.marker)
  /\ PayloadCount(disk.asar) = 1

\* C27: a patch() and a status() in flight at the same time never hold the
\* same scratch path, also when both computed it in the same millisecond;
\* status() reads and removes its own directory only, so the tree patch()
\* extracted stays in the temp directory until patch() cleans it up.
C27_ScratchDisjoint ==
  /\ \A p \in StatusProcs :
       (scratch.pc["patch"] # "idle" /\ scratch.pc[p] # "idle") =>
         scratch.dir["patch"] # scratch.dir[p]
  /\ (scratch.pc["patch"] \in {"extracted", "injected"}) =>
       scratch.dir["patch"] \in scratch.tmp

\* patch() has injected, and a status() that computed its path in the same
\* millisecond has extracted and is about to read
C27_Witness ==
  /\ scratch.pc["patch"] = "injected"
  /\ scratch.pc["status1"] = "extracted"
  /\ scratch.dir["patch"].stamp = scratch.dir["status1"].stamp
  /\ {scratch.dir["patch"], scratch.dir["status1"]} \subseteq scratch.tmp

\* C28 (as claimed): on an installation that started without marker and
\* backups, whenever the marker file exists at the return of a patch() or an
\* unpatch(), both .bak files exist too, whatever has failed.
C28_MarkerImpliesBackups ==
  (ret.op \in {"patch", "unpatch"} /\ Exists(disk.marker)) => HasBackups(disk)

\* C29: on an installation that started without marker and backups, after
\* any patch() and unpatch() calls with failures at any step, a .bak file that
\* exists holds what its live file held at the start: the archive .bak never
\* holds the payload and the executable .bak never holds a rewritten hash.
C29_BackupsAreOriginal ==
  /\ Exists(disk.asarBak) =>
       /\ disk.asarBak[1] = hist.origin.asar
       /\ PayloadCount(disk.asarBak[1]) = 0
  /\ Exists(disk.exeBak) => disk.exeBak[1] = hist.origin.exe
  /\ (ret.op = "patch" /\ ret.outcome = "ok") =>
       (ret.newHash # ret.oldHash /\ Occurrences(disk.exeBak[1], ret.newHash) = {})

\* a patch() that succeeded on backups left by an earlier patch() that had
\* failed: the backups still hold the original files, not the live ones
C29_Witness ==
  /\ ret.op = "patch" /\ ret.outcome = "ok"
  /\ HasBackups(ret.pre)
  /\ disk.asarBak = <<hist.origin.asar>> /\ disk.asarBak # <<disk.asar>>
  /\ disk.exeBak = <<hist.origin.exe>> /\ disk.exeBak # <<disk.exe>>

====
